---- MODULE Spec2Model ----
(***************************************************************************)
(* Model of the image metadata synchronizer (src/main.py): enumeration of  *)
(* the local image files, tag extraction, description building, remote     *)
(* path resolution, batching and the batched execution with its per-item   *)
(* callbacks.  Python strings are TLA+ strings, handled with Len, SubSeq   *)
(* and \o; Python lists are sequences; a Python dict is a function whose   *)
(* domain is its set of keys.                                              *)
(***************************************************************************)
EXTENDS Integers, Sequences, FiniteSets, TLC

VARIABLES
    files,                \* local filesystem: path -> metadata[0] of exiftool
    list_of_image_paths,  \* main.py:171
    pc,                   \* position in bulk_update_image_descriptions
    i,                    \* 1-based index of the loop of main.py:183
    batch,                \* requests added to the batch, in order of batch.add
    queries,              \* files().list calls issued, in order
    builds,               \* calls of create_description_from_tags, in order
    report,               \* per-image result of one loop iteration
    executions,           \* number of calls of batch.execute
    pending,              \* request ids the store has not completed yet
    completed,            \* request ids in the order their callback fired
    outcomes,             \* lines written by batch_callback, in order
    description,          \* remote store: file id -> description
    raised,               \* exception that ended the run, "" if none
    arg,                  \* input of a single call (SpecDescription, SpecResolve)
    ret                   \* its result

vars == <<files, list_of_image_paths, pc, i, batch, queries, builds, report,
          executions, pending, completed, outcomes, description, raised,
          arg, ret>>

-----------------------------------------------------------------------------
(* Bounds *)

MaxFiles == 2      \* files under the local folder
MaxTags == 2       \* tags in one sequence handed to the description builder
MaxTagLen == 2     \* characters in one such tag
MaxDepth == 2      \* folder segments of a path handed to the resolver

-----------------------------------------------------------------------------
(* Python str operations *)

Char(s, k) == SubSeq(s, k, k)

StartsAt(s, sub, k) ==
    /\ k + Len(sub) - 1 <= Len(s)
    /\ SubSeq(s, k, k + Len(sub) - 1) = sub

\* sub in s
Contains(s, sub) == \E k \in 1..(Len(s) - Len(sub) + 1) : StartsAt(s, sub, k)

\* s[k-1:].replace(old, new), old non-empty: every non-overlapping
\* occurrence, scanning from the left
RECURSIVE ReplaceFrom(_, _, _, _)
ReplaceFrom(s, old, new, k) ==
    IF k + Len(old) - 1 > Len(s) THEN SubSeq(s, k, Len(s))
    ELSE IF StartsAt(s, old, k) THEN new \o ReplaceFrom(s, old, new, k + Len(old))
    ELSE Char(s, k) \o ReplaceFrom(s, old, new, k + 1)

Replace(s, old, new) == ReplaceFrom(s, old, new, 1)

\* s.split(sep), sep non-empty: start is where the current piece begins,
\* k the position examined
RECURSIVE SplitFrom(_, _, _, _)
SplitFrom(s, sep, start, k) ==
    IF k + Len(sep) - 1 > Len(s) THEN <<SubSeq(s, start, Len(s))>>
    ELSE IF StartsAt(s, sep, k)
         THEN <<SubSeq(s, start, k - 1)>>
              \o SplitFrom(s, sep, k + Len(sep), k + Len(sep))
    ELSE SplitFrom(s, sep, start, k + 1)

Split(s, sep) == SplitFrom(s, sep, 1, 1)

UpperLetters == "ABCDEFGHIJKLMNOPQRSTUVWXYZ"
LowerLetters == "abcdefghijklmnopqrstuvwxyz"

LowerChar(c) ==
    IF \E k \in 1..Len(UpperLetters) : Char(UpperLetters, k) = c
    THEN Char(LowerLetters, CHOOSE k \in 1..Len(UpperLetters) : Char(UpperLetters, k) = c)
    ELSE c

\* s.lower()
RECURSIVE Lower(_)
Lower(s) == IF s = "" THEN "" ELSE LowerChar(Char(s, 1)) \o Lower(SubSeq(s, 2, Len(s)))

\* Path(p).suffix: from the last dot of the final component, "" when the
\* component has no dot, starts with its only dot or ends with the dot
PathSuffix(p) ==
    LET parts == Split(p, "/")
        name == parts[Len(parts)]
        dots == {k \in 1..Len(name) : Char(name, k) = "."}
    IN IF dots = {} THEN ""
       ELSE LET d == CHOOSE k \in dots : \A m \in dots : m <= k
            IN IF 1 < d /\ d < Len(name) THEN SubSeq(name, d, Len(name)) ELSE ""

-----------------------------------------------------------------------------
(* Program constants, main.py:38-40 *)

LOCAL_FOLDER_NAME == "images"
IMAGE_FILE_EXTENSIONS == {".jpg", ".jpeg", ".png"}
GOOGLE_DRIVE_FOLDER_ID == ""

\* Python's None, as the value of response and exception in batch_callback
None == "None"

FolderMimeType == "application/vnd.google-apps.folder"

-----------------------------------------------------------------------------
(* The environment: the remote store and the local folder *)

\* The objects of the remote store, in the order files().list reports them.
\* Two folders are named "a" (the first one wins, main.py:112), root holds two
\* images whose names contain "cat.jpg" and a text file that does too.
Drive == <<
    [id |-> "fa",  name |-> "a",           mimeType |-> FolderMimeType, parents |-> {""}],
    [id |-> "fa2", name |-> "a",           mimeType |-> FolderMimeType, parents |-> {""}],
    [id |-> "r1",  name |-> "cat.jpg",     mimeType |-> "image/jpeg",   parents |-> {""}],
    [id |-> "r2",  name |-> "bobcat.jpg",  mimeType |-> "image/jpeg",   parents |-> {""}],
    [id |-> "d1",  name |-> "cat.jpg.txt", mimeType |-> "text/plain",   parents |-> {""}],
    [id |-> "r3",  name |-> "owl.PNG",     mimeType |-> "image/png",    parents |-> {"fa"}],
    [id |-> "fi",  name |-> "images",      mimeType |-> FolderMimeType, parents |-> {"fa"}],
    [id |-> "fb",  name |-> "b",           mimeType |-> FolderMimeType, parents |-> {"fa"}],
    [id |-> "r4",  name |-> "cat.jpg",     mimeType |-> "image/jpeg",   parents |-> {"fi"}],
    [id |-> "r5",  name |-> "cat.jpg",     mimeType |-> "image/jpeg",   parents |-> {"fb"}],
    [id |-> "r6",  name |-> "t.jpg",       mimeType |-> "image/jpeg",   parents |-> {"fa2"}] >>

DriveIds == {Drive[k].id : k \in 1..Len(Drive)}

DriveFile(id) == Drive[CHOOSE k \in 1..Len(Drive) : Drive[k].id = id]

\* Files that may lie under the local folder
LocalPaths == {
    "images/cat.jpg",
    "images/bobcat.jpg",
    "images/a/owl.PNG",
    "images/x/dog.png",
    "images/a/images/cat.jpg",
    "images/myimages/cat.jpg",
    "images/notes.txt" }

\* What the metadata tool may report as the keywords of a file
KeywordLists == { <<>>, <<"pet">>, <<"pet", "orange">> }

\* metadata[0] of execute_json for one file, with or without the keywords key
Metadata(path) ==
    { ("SourceFile" :> path) }
    \cup { ("SourceFile" :> path) @@ ("IPTC:Keywords" :> kw) : kw \in KeywordLists }

\* The orders in which a finite set may be enumerated
Orders(S) ==
    { s \in [1..Cardinality(S) -> S] : \A a, b \in 1..Cardinality(S) : s[a] = s[b] => a = b }

-----------------------------------------------------------------------------
(* main.py, the functions *)

\* main.py:43-59.  rglob reports the files in an order of its own.
get_list_of_image_paths ==
    Orders({ p \in DOMAIN files : Lower(PathSuffix(p)) \in IMAGE_FILE_EXTENSIONS })

\* main.py:76 raises KeyError when the key is not in the metadata
ExtractRaisesKeyError(image_path) == "IPTC:Keywords" \notin DOMAIN files[image_path]

\* main.py:62-77
extract_tags_property(image_path) == files[image_path]["IPTC:Keywords"]

\* files().list of main.py:104-105: the folders of that name in that folder
ListFolders(current_folder_id, part) ==
    SelectSeq(Drive, LAMBDA f : /\ current_folder_id \in f.parents
                                /\ f.name = part
                                /\ f.mimeType = FolderMimeType)

\* files().list of main.py:116-120: the images of the folder whose name
\* contains image_name
ListImages(current_folder_id, image_name) ==
    SelectSeq(Drive, LAMBDA f : /\ current_folder_id \in f.parents
                                /\ Contains(f.name, image_name)
                                /\ Contains(f.mimeType, "image/"))

\* The loop of main.py:103-112 from part k on, then main.py:114-123; qs are
\* the queries issued so far.
RECURSIVE WalkFolders(_, _, _, _)
WalkFolders(path_parts, k, current_folder_id, qs) ==
    IF k < Len(path_parts)
    THEN LET folders == ListFolders(current_folder_id, path_parts[k])
             q == [parent |-> current_folder_id, name |-> path_parts[k], terminal |-> FALSE]
         IN IF folders = <<>>
            THEN [queries |-> Append(qs, q), files |-> <<>>]
            ELSE WalkFolders(path_parts, k + 1, folders[1].id, Append(qs, q))
    ELSE LET image_name == path_parts[Len(path_parts)]
             q == [parent |-> current_folder_id, name |-> image_name, terminal |-> TRUE]
         IN [queries |-> Append(qs, q), files |-> ListImages(current_folder_id, image_name)]

\* search_image_in_drive going on from the same folder after a folder is
\* not found
RECURSIVE WalkFoldersPastMiss(_, _, _, _)
WalkFoldersPastMiss(path_parts, k, current_folder_id, qs) ==
    IF k < Len(path_parts)
    THEN LET folders == ListFolders(current_folder_id, path_parts[k])
             q == [parent |-> current_folder_id, name |-> path_parts[k], terminal |-> FALSE]
         IN WalkFoldersPastMiss(path_parts, k + 1,
                                IF folders = <<>> THEN current_folder_id ELSE folders[1].id,
                                Append(qs, q))
    ELSE LET image_name == path_parts[Len(path_parts)]
             q == [parent |-> current_folder_id, name |-> image_name, terminal |-> TRUE]
         IN [queries |-> Append(qs, q), files |-> ListImages(current_folder_id, image_name)]

search_image_past_miss(image_path, root_folder_id) ==
    WalkFoldersPastMiss(Split(image_path, "/"), 1, root_folder_id, <<>>)

\* main.py:80-123: the files found, with the queries issued to find them
search_image_in_drive(image_path, root_folder_id) ==
    WalkFolders(Split(image_path, "/"), 1, root_folder_id, <<>>)

\* The loop of main.py:138-139
RECURSIVE AppendTags(_, _)
AppendTags(new_description, tags) ==
    IF tags = <<>> THEN new_description
    ELSE AppendTags(new_description \o Head(tags) \o ", ", Tail(tags))

\* create_description_from_tags without the slice of main.py:141
create_description_untrimmed(tags) == AppendTags("", tags)

\* main.py:126-142
create_description_from_tags(tags) ==
    LET new_description == AppendTags("", tags)
    IN SubSeq(new_description, 1, Len(new_description) - 2)

\* batch_callback writing nothing for a request that failed
batch_callback_silent(request_id, response, exception) ==
    IF exception # None
    THEN [lines |-> <<>>, raises |-> FALSE]
    ELSE [lines |-> << [kind |-> "Updated", name |-> response.name] >>,
          raises |-> FALSE]

\* batch_callback raising the exception of a request that failed
batch_callback_raising(request_id, response, exception) ==
    IF exception # None
    THEN [lines |-> << [kind |-> "Failed", request_id |-> request_id, detail |-> exception] >>,
          raises |-> TRUE]
    ELSE [lines |-> << [kind |-> "Updated", name |-> response.name] >>,
          raises |-> FALSE]

\* main.py:145-157: the lines written, and whether the callback raised
batch_callback(request_id, response, exception) ==
    IF exception # None
    THEN [lines |-> << [kind |-> "Failed", request_id |-> request_id, detail |-> exception] >>,
          raises |-> FALSE]
    ELSE [lines |-> << [kind |-> "Updated", name |-> response.name] >>,
          raises |-> FALSE]

\* The test of main.py:191 as "is not None"
HasTagsNotNone(image_tags) == Len(image_tags) >= 0

\* main.py:191, the truth value of a list
HasTags(image_tags) == image_tags # <<>>

\* main.py:189
StripLocalFolder(image_path, local_folder_name) ==
    Replace(image_path, local_folder_name \o "/", "")

\* main.py:205-213 with only drive_files[0] updated
BatchRequestsFirstOnly(drive_files, new_description, image) ==
    << [fileId |-> drive_files[1].id,
        body |-> [description |-> new_description],
        image |-> image] >>

\* main.py:205-213: one update request per file found; image is the loop
\* iteration that added it
BatchRequests(drive_files, new_description, image) ==
    [k \in 1..Len(drive_files) |->
        [fileId |-> drive_files[k].id,
         body |-> [description |-> new_description],
         image |-> image]]

\* batch.execute() indented into the loop body
LoopFinishedOrNot == i >= 1

\* main.py:183, the loop has gone through every path
LoopFinished == i > Len(list_of_image_paths)

-----------------------------------------------------------------------------
(* One run of bulk_update_image_descriptions, main.py:160-228 *)

\* The local folders a run may find
LocalFolders ==
    UNION { { f \in [S -> UNION { Metadata(p) : p \in S }] : \A p \in S : f[p] \in Metadata(p) }
            : S \in { T \in SUBSET LocalPaths : Cardinality(T) <= MaxFiles } }

Idle ==
    /\ list_of_image_paths = <<>>
    /\ i = 1
    /\ batch = <<>>
    /\ queries = <<>>
    /\ builds = <<>>
    /\ report = <<>>
    /\ executions = 0
    /\ pending = {}
    /\ completed = <<>>
    /\ outcomes = <<>>
    /\ description = [id \in DriveIds |-> ""]
    /\ raised = ""

Init ==
    /\ files \in LocalFolders
    /\ pc = "start"
    /\ Idle
    /\ arg = <<>>
    /\ ret = <<>>

\* main.py:171-178: no image under the folder, the function returns
NoImages ==
    /\ pc = "start"
    /\ <<>> \in get_list_of_image_paths
    /\ pc' = "done"
    /\ UNCHANGED <<files, list_of_image_paths, i, batch, queries, builds, report,
                   executions, pending, completed, outcomes, description, raised,
                   arg, ret>>

\* main.py:171-181: the paths are listed and the batch is created
Enumerate ==
    /\ pc = "start"
    /\ \E paths \in get_list_of_image_paths :
          /\ paths # <<>>
          /\ list_of_image_paths' = paths
    /\ pc' = "loop"
    /\ UNCHANGED <<files, i, batch, queries, builds, report, executions, pending,
                   completed, outcomes, description, raised, arg, ret>>

\* main.py:187 in an iteration whose file has no keywords key: KeyError
\* leaves the loop and the function
ExtractFails ==
    /\ pc = "loop"
    /\ i \in 1..Len(list_of_image_paths)
    /\ ExtractRaisesKeyError(list_of_image_paths[i])
    /\ pc' = "aborted"
    /\ raised' = "KeyError"
    /\ UNCHANGED <<files, list_of_image_paths, i, batch, queries, builds, report,
                   executions, pending, completed, outcomes, description, arg, ret>>

\* main.py:184-220, an iteration that takes the else branch of line 217
SkipImage ==
    /\ pc = "loop"
    /\ i \in 1..Len(list_of_image_paths)
    /\ ~ExtractRaisesKeyError(list_of_image_paths[i])
    /\ LET image_tags == extract_tags_property(list_of_image_paths[i])
           image_path == StripLocalFolder(list_of_image_paths[i], LOCAL_FOLDER_NAME)
       IN /\ ~HasTags(image_tags)
          /\ report' = Append(report, [image_path |-> image_path,
                                        image_tags |-> image_tags,
                                        drive_files |-> <<>>,
                                        result |-> "No tags found"])
    /\ i' = i + 1
    /\ UNCHANGED <<files, list_of_image_paths, pc, batch, queries, builds,
                   executions, pending, completed, outcomes, description, raised,
                   arg, ret>>

\* main.py:184-220, an iteration that takes the branch of line 191: the
\* description is built, the file searched and every file found is added
SyncImage ==
    /\ pc = "loop"
    /\ i \in 1..Len(list_of_image_paths)
    /\ ~ExtractRaisesKeyError(list_of_image_paths[i])
    /\ LET image_tags == extract_tags_property(list_of_image_paths[i])
           image_path == StripLocalFolder(list_of_image_paths[i], LOCAL_FOLDER_NAME)
           new_description == create_description_from_tags(image_tags)
           found == search_image_in_drive(image_path, GOOGLE_DRIVE_FOLDER_ID)
           drive_files == found.files
       IN /\ HasTags(image_tags)
          /\ builds' = Append(builds, [image |-> i, tags |-> image_tags,
                                        new_description |-> new_description])
          /\ queries' = queries \o [k \in 1..Len(found.queries) |->
                                       [image |-> i, query |-> found.queries[k]]]
          /\ batch' = IF drive_files # <<>>
                      THEN batch \o BatchRequests(drive_files, new_description, i)
                      ELSE batch
          /\ report' = Append(report, [image_path |-> image_path,
                                        image_tags |-> image_tags,
                                        drive_files |-> drive_files,
                                        result |-> IF drive_files # <<>>
                                                   THEN "File added to batch processing"
                                                   ELSE "No matching file found"])
    /\ i' = i + 1
    /\ UNCHANGED <<files, list_of_image_paths, pc, executions, pending, completed,
                   outcomes, description, raised, arg, ret>>

\* main.py:222-228: batch.execute sends the requests
ExecuteBatch ==
    /\ pc = "loop"
    /\ LoopFinished
    /\ executions' = executions + 1
    /\ pending' = 1..Len(batch)
    /\ pc' = "callbacks"
    /\ UNCHANGED <<files, list_of_image_paths, i, batch, queries, builds, report,
                   completed, outcomes, description, raised, arg, ret>>

\* main.py:228: batch.execute cannot reach the store and raises
ExecuteFails ==
    /\ pc = "loop"
    /\ LoopFinished
    /\ executions' = executions + 1
    /\ pc' = "aborted"
    /\ raised' = "HttpError"
    /\ UNCHANGED <<files, list_of_image_paths, i, batch, queries, builds, report,
                   pending, completed, outcomes, description, arg, ret>>

\* main.py:228 and 145-157: the store has completed request r, in an order
\* of its own, with an update or with an error, and its callback runs
Complete(r) ==
    /\ pc = "callbacks"
    /\ r \in pending
    /\ \E updated \in BOOLEAN :
          LET file == DriveFile(batch[r].fileId)
              response == IF updated THEN [id |-> file.id, name |-> file.name] ELSE None
              exception == IF updated THEN None ELSE "HttpError"
              called == batch_callback(r, response, exception)
          IN /\ description' = IF updated
                               THEN [description EXCEPT ![file.id] = batch[r].body.description]
                               ELSE description
             /\ outcomes' = outcomes \o called.lines
             /\ pc' = IF called.raises THEN "aborted" ELSE pc
             /\ raised' = IF called.raises THEN "callback" ELSE raised
    /\ pending' = pending \ {r}
    /\ completed' = Append(completed, r)
    /\ UNCHANGED <<files, list_of_image_paths, i, batch, queries, builds, report,
                   executions, arg, ret>>

\* main.py:228: every callback has run, batch.execute and the function return
Finish ==
    /\ pc = "callbacks"
    /\ pending = {}
    /\ pc' = "done"
    /\ UNCHANGED <<files, list_of_image_paths, i, batch, queries, builds, report,
                   executions, pending, completed, outcomes, description, raised,
                   arg, ret>>

Next ==
    \/ NoImages
    \/ Enumerate
    \/ ExtractFails
    \/ SkipImage
    \/ SyncImage
    \/ ExecuteBatch
    \/ ExecuteFails
    \/ \E r \in 1..Len(batch) : Complete(r)
    \/ Finish

Spec == Init /\ [][Next]_vars

-----------------------------------------------------------------------------
(* One call of create_description_from_tags on any tag sequence *)

TagChars == {"a", ",", " "}

RECURSIVE StringsUpTo(_)
StringsUpTo(n) ==
    IF n = 0 THEN {""}
    ELSE LET shorter == StringsUpTo(n - 1)
         IN shorter \cup { t \o c : t \in shorter, c \in TagChars }

TagSequences == UNION { [1..n -> StringsUpTo(MaxTagLen)] : n \in 0..MaxTags }

InitDescription ==
    /\ files = <<>>
    /\ pc = "call"
    /\ Idle
    /\ arg \in TagSequences
    /\ ret = ""

CallDescription ==
    /\ pc = "call"
    /\ ret' = create_description_from_tags(arg)
    /\ pc' = "returned"
    /\ UNCHANGED <<files, list_of_image_paths, i, batch, queries, builds, report,
                   executions, pending, completed, outcomes, description, raised, arg>>

SpecDescription == InitDescription /\ [][CallDescription]_vars

-----------------------------------------------------------------------------
(* One call of search_image_in_drive on any path *)

FolderNames == {"a", "b", "x"}
ImageNames == {"cat.jpg", "owl.PNG", "t.jpg", "dog.png"}
RootIds == {GOOGLE_DRIVE_FOLDER_ID, "fa"}

FolderChains == UNION { [1..n -> FolderNames] : n \in 0..MaxDepth }

\* The relative path of a file of that name under those folders
RECURSIVE JoinPath(_, _)
JoinPath(folders, name) ==
    IF folders = <<>> THEN name
    ELSE Head(folders) \o "/" \o JoinPath(Tail(folders), name)

InitResolve ==
    /\ files = <<>>
    /\ pc = "call"
    /\ Idle
    /\ arg \in [folders : FolderChains, name : ImageNames, root : RootIds]
    /\ ret = <<>>

CallResolve ==
    /\ pc = "call"
    /\ ret' = search_image_in_drive(JoinPath(arg.folders, arg.name), arg.root)
    /\ pc' = "returned"
    /\ UNCHANGED <<files, list_of_image_paths, i, batch, queries, builds, report,
                   executions, pending, completed, outcomes, description, raised, arg>>

SpecResolve == InitResolve /\ [][CallResolve]_vars

-----------------------------------------------------------------------------
(* Properties *)

Range(seq) == { seq[k] : k \in 1..Len(seq) }

EndsWith(s, sub) ==
    /\ Len(sub) <= Len(s)
    /\ SubSeq(s, Len(s) - Len(sub) + 1, Len(s)) = sub

\* The requests the loop iteration k added, in the order it added them
RequestsOf(k) == SelectSeq(batch, LAMBDA b : b.image = k)

\* C1: in a run that ends without an exception, the callback has reported
\* exactly one outcome, Updated or Failed, for each request added to the
\* batch; at no point are there more outcomes than requests.
C1_OutcomePerBatchItem ==
    /\ Len(outcomes) <= Len(batch)
    /\ \A k \in 1..Len(outcomes) : outcomes[k].kind \in {"Updated", "Failed"}
    /\ pc = "done" => Len(outcomes) = Len(batch)

C1_Witness ==
    /\ pc = "done"
    /\ Len(batch) >= 2
    /\ \E a, b \in 1..Len(outcomes) :
          outcomes[a].kind = "Updated" /\ outcomes[b].kind = "Failed"

\* C2: an image whose metadata has no keywords field ends in the soft
\* "No tags found" outcome and never ends the run with an exception.
C2_AbsentKeywordsAreSoft ==
    /\ raised # "KeyError"
    /\ \A k \in 1..Len(report) :
          ExtractRaisesKeyError(list_of_image_paths[k]) => report[k].result = "No tags found"

\* C3: an image whose tag sequence is empty gets no request in the batch, no
\* call of the description builder and no query; the builder is never called
\* with an empty sequence.
C3_EmptyTagsDoNothing ==
    /\ \A k \in 1..Len(report) :
          report[k].image_tags = <<>> =>
             /\ report[k].result = "No tags found"
             /\ RequestsOf(k) = <<>>
             /\ \A b \in Range(builds) : b.image # k
             /\ \A q \in Range(queries) : q.image # k
    /\ \A b \in Range(builds) : b.tags # <<>>

C3_Witness ==
    /\ pc = "done"
    /\ Len(batch) >= 1
    /\ \E k \in 1..Len(report) : report[k].image_tags = <<>>

\* The indices of the objects of the store a folder query matches
FolderMatches(q) ==
    { d \in 1..Len(Drive) : /\ q.parent \in Drive[d].parents
                            /\ Drive[d].name = q.name
                            /\ Drive[d].mimeType = FolderMimeType }

\* C4: a call on a path with k folder segments issues at most k folder
\* queries and at most one terminal query, the folder queries in segment
\* order from the root id, each in the first folder the query before it
\* matched; a folder query without a match is the last query of the call,
\* which returns the empty sequence.
C4_ResolveQueries ==
    pc = "returned" =>
       LET qs == ret.queries
           k == Len(arg.folders)
       IN /\ Len(SelectSeq(qs, LAMBDA q : ~q.terminal)) <= k
          /\ Len(SelectSeq(qs, LAMBDA q : q.terminal)) <= 1
          /\ Len(qs) >= 1
          /\ qs[1].parent = arg.root
          /\ \A j \in 1..Len(qs) :
                /\ qs[j].terminal => (j = k + 1 /\ qs[j].name = arg.name)
                /\ ~qs[j].terminal => (j <= k /\ qs[j].name = arg.folders[j])
                /\ j > 1 =>
                      /\ FolderMatches(qs[j - 1]) # {}
                      /\ qs[j].parent =
                           Drive[CHOOSE d \in FolderMatches(qs[j - 1]) :
                                    \A e \in FolderMatches(qs[j - 1]) : d <= e].id
                /\ (~qs[j].terminal /\ FolderMatches(qs[j]) = {}) =>
                      (j = Len(qs) /\ ret.files = <<>>)

C4_Witness ==
    /\ pc = "returned"
    /\ Len(arg.folders) = 2
    /\ Len(ret.queries) = 1
    /\ ret.files = <<>>

\* C5: an image with tags has as many requests in the batch as the resolver
\* returned files for it, the j-th one for the j-th file and with the
\* description built from the tags of that image.
C5_OneRequestPerMatch ==
    \A k \in 1..Len(report) :
       report[k].image_tags # <<>> =>
          LET requests == RequestsOf(k)
              drive_files == report[k].drive_files
          IN /\ Len(requests) = Len(drive_files)
             /\ (drive_files = <<>>) = (report[k].result = "No matching file found")
             /\ \A j \in 1..Len(requests) :
                   /\ requests[j].fileId = drive_files[j].id
                   /\ \E b \in Range(builds) :
                         /\ b.image = k
                         /\ b.tags = report[k].image_tags
                         /\ b.new_description = requests[j].body.description

C5_Witness ==
    /\ pc = "done"
    /\ \E k \in 1..Len(report) : Len(report[k].drive_files) >= 2
    /\ \E k \in 1..Len(report) :
          report[k].image_tags # <<>> /\ report[k].drive_files = <<>>

\* C6: batch.execute is called at most once and only after the loop has
\* gone through every path; before it is called no description of the
\* store has changed and no callback has run; from the call on the batch
\* does not change.
C6_ExecuteOnceAfterLoop ==
    /\ [](/\ executions <= 1
          /\ executions = 0 =>
                /\ description = [id \in DriveIds |-> ""]
                /\ outcomes = <<>>
                /\ completed = <<>>
          /\ executions = 1 =>
                /\ i = Len(list_of_image_paths) + 1
                /\ Len(report) = Len(list_of_image_paths))
    /\ [][executions' >= 1 => batch' = batch]_vars

C6_Witness ==
    /\ pc = "done"
    /\ executions = 1
    /\ Len(list_of_image_paths) = 2
    /\ Len(batch) >= 2
    /\ \E id \in DriveIds : description[id] # ""

\* C7: during the execution every request is either still pending or has had
\* its callback fired exactly once, with the name of the file it updated or
\* with its request id and the error; the run never ends with an exception
\* once a callback has fired, so every request of the batch is completed,
\* whatever the order and whichever of them fail.
C7_FailureIsolated ==
    /\ pc \in {"callbacks", "done"} =>
          /\ \A a, b \in 1..Len(completed) : completed[a] = completed[b] => a = b
          /\ Range(completed) \cap pending = {}
          /\ Range(completed) \cup pending = 1..Len(batch)
          /\ Len(outcomes) = Len(completed)
          /\ \A k \in 1..Len(outcomes) :
                \/ /\ outcomes[k].kind = "Updated"
                   /\ outcomes[k].name = DriveFile(batch[completed[k]].fileId).name
                \/ /\ outcomes[k].kind = "Failed"
                   /\ outcomes[k].request_id = completed[k]
                   /\ outcomes[k].detail # None
    /\ pc = "done" => pending = {}
    /\ completed # <<>> => pc # "aborted"
    /\ pc = "callbacks" => \A r \in pending : ENABLED Complete(r)

C7_Witness ==
    /\ pc = "done"
    /\ Len(completed) >= 3
    /\ completed[1] > completed[2]
    /\ outcomes[1].kind = "Failed"
    /\ outcomes[2].kind = "Updated"
    /\ outcomes[3].kind = "Updated"

Separator == ", "

\* No tag of the sequence contains the separator
SeparatorFree(tags) == \A k \in 1..Len(tags) : ~Contains(tags[k], Separator)

\* C8 as stated: for at least one tag, none containing the separator, the
\* description neither starts nor ends with the separator and splits back
\* into the tags.
C8_RoundTripNoEdgeSeparator ==
    (pc = "returned" /\ arg # <<>> /\ SeparatorFree(arg)) =>
       /\ ~StartsAt(ret, Separator, 1)
       /\ ~EndsWith(ret, Separator)
       /\ Split(ret, Separator) = arg

\* C8 as amended: the description splits back into the tags; it does not
\* start with the separator unless the first tag is empty and there are
\* more tags, and does not end with it unless the last tag is empty and
\* there are more tags.
C8_RoundTrip ==
    (pc = "returned" /\ arg # <<>> /\ SeparatorFree(arg)) =>
       /\ Split(ret, Separator) = arg
       /\ StartsAt(ret, Separator, 1) <=> (arg[1] = "" /\ Len(arg) >= 2)
       /\ EndsWith(ret, Separator) <=> (arg[Len(arg)] = "" /\ Len(arg) >= 2)

C8_Witness ==
    /\ pc = "returned"
    /\ arg = <<"a,", " a">>
    /\ ret = "a,,  a"

\* C9: the path handed to the resolver is the enumerated path without its
\* leading "images/" and otherwise unchanged.
C9_OnlyLeadingFolderRemoved ==
    \A k \in 1..Len(report) :
       LET enumerated == list_of_image_paths[k]
           prefix == LOCAL_FOLDER_NAME \o "/"
       IN /\ StartsAt(enumerated, prefix, 1)
          /\ report[k].image_path = SubSeq(enumerated, Len(prefix) + 1, Len(enumerated))

\* C10: no file id is the target of two requests of the batch.
C10_NoFileIdTwice ==
    \A a, b \in 1..Len(batch) : batch[a].fileId = batch[b].fileId => a = b

=============================================================================
